---- MODULE Spec2Model ----
(***************************************************************************)
(* Cancellation tree of chapter4/src/4_2_5/main.rs: a Background root,     *)
(* WithCancel nodes registered in their parent's children list, a Mutex    *)
(* around every node's ContextBody and a tokio Notify per WithCancel.      *)
(* Tasks call new / cancel / done / err / value concurrently; every        *)
(* action is one step a thread takes between two points where another      *)
(* thread can interfere (a lock acquisition, a lock release, the           *)
(* registration on the Notify, the broadcast).                             *)
(***************************************************************************)
EXTENDS Integers, Sequences, FiniteSets, TLC

\* ---------------------------------------------------------------- bounds
MaxNodes == 2      \* WithCancel nodes that may be constructed
MaxTasks == 3      \* concurrent tasks
MaxCalls == 3      \* operations started over a run, after main's first

\* ------------------------------------------------------------- constants
Root == 0                         \* the Background node
NodeIds == 0..MaxNodes
Tasks == 1..MaxTasks
NoNode == -1                      \* parent: None
NoTask == 0                       \* Mutex not held
NoCause == "None"                 \* Option<ContextError>::None
ContextError == {"Canceled"}
ContextKey == {"String", "CancelContext"}

VARIABLES
  alive,      \* node ids allocated so far (Root included)
  handles,    \* nodes whose constructor has returned: tasks may call them
  children,   \* ContextBody.children, a Vec per node
  parent,     \* ContextBody.parent
  canceled,   \* ContextBody.canceled
  lock,       \* owner of the Mutex around each node's ContextBody
  waiters,    \* tasks queued on each node's cancel_notify
  pc,         \* per task: where it stands in the operation it runs
  op,         \* per task: the operation it runs (or ran last)
  stack,      \* per task: call frames [node, i], innermost last
  arg,        \* per task: the receiver, error and key the call was given
  local,      \* per task: the value read under the lock
  res,        \* per task: what the last operation returned
  ncalls      \* operations started so far

vars == <<alive, handles, children, parent, canceled, lock, waiters,
          pc, op, stack, arg, local, res, ncalls>>

nodeVars == <<alive, handles, children, parent, canceled>>

\* ---------------------------------------------------------------- helpers
Frame(n) == [node |-> n, i |-> 0, remove_from_parent |-> FALSE]
CancelFrame(n, rfp) == [node |-> n, i |-> 0, remove_from_parent |-> rfp]
Top(t) == stack[t][Len(stack[t])]
Self(t) == Top(t).node
Pop(s) == SubSeq(s, 1, Len(s) - 1)

NoRes == [tag |-> "none", cause |-> NoCause]
Res(tag, c) == [tag |-> tag, cause |-> c]
NoKey == "none"
Arg(n, e, key) == [node |-> n, error |-> e, key |-> key]
NoArg == Arg(NoNode, NoCause, NoKey)

\* Every node exposing its body, WithCancel too.
AnyContextBody(n) == TRUE

\* Only Background implements HasContextBody (lines 171-175); WithCancel::new
\* is bounded by C: HasContextBody + Context (line 66).
HasContextBody(n) == n = Root

\* WithCancel implements Canceler (line 120); Background does not.
IsWithCancel(n) == n \in alive /\ n # Root

RECURSIVE Depth(_)
Depth(n) == IF parent[n] = NoNode THEN 0 ELSE 1 + Depth(parent[n])

RECURSIVE Ancestors(_)
Ancestors(n) == IF parent[n] = NoNode THEN {}
                ELSE {parent[n]} \cup Ancestors(parent[n])

Descendants(n) == {d \in alive : n \in Ancestors(d)}

LocksHeld(t) == {n \in NodeIds : lock[n] = t}

\* ------------------------------------------------------------------- Init
\* main, line 181: WithCancel::new(Background::new()) has returned. The
\* root has parent None and canceled None (lines 144-148); the first
\* WithCancel has canceled None, no children and the root as parent, and is
\* the only entry of the root's children.
First == 1

Init ==
  /\ alive = {Root, First}
  /\ handles = {Root, First}
  /\ children = [n \in NodeIds |-> IF n = Root THEN <<First>> ELSE <<>>]
  /\ parent = [n \in NodeIds |-> IF n = First THEN Root ELSE NoNode]
  /\ canceled = [n \in NodeIds |-> NoCause]
  /\ lock = [n \in NodeIds |-> NoTask]
  /\ waiters = [n \in NodeIds |-> {}]
  /\ pc = [t \in Tasks |-> "idle"]
  /\ op = [t \in Tasks |-> "none"]
  /\ stack = [t \in Tasks |-> <<>>]
  /\ arg = [t \in Tasks |-> NoArg]
  /\ local = [t \in Tasks |-> NoCause]
  /\ res = [t \in Tasks |-> NoRes]
  /\ ncalls = 0

\* Tasks are interchangeable: they are spawned in the order of their ids.
Spawned(t) == \A u \in Tasks : u < t => op[u] # "none"

\* A task starts operation o with arguments a (the caller sets the first
\* frame).
Begin(t, o, a, p) ==
  /\ pc[t] = "idle"
  /\ Spawned(t)
  /\ ncalls < MaxCalls
  /\ ncalls' = ncalls + 1
  /\ op' = [op EXCEPT ![t] = o]
  /\ arg' = [arg EXCEPT ![t] = a]
  /\ res' = [res EXCEPT ![t] = NoRes]
  /\ pc' = [pc EXCEPT ![t] = p]
  /\ UNCHANGED local

\* The operation returns r to its caller.
Return(t, r) ==
  /\ pc' = [pc EXCEPT ![t] = "idle"]
  /\ res' = [res EXCEPT ![t] = r]
  /\ stack' = [stack EXCEPT ![t] = <<>>]
  /\ arg' = [arg EXCEPT ![t] = Arg(@.node, NoCause, NoKey)]
  /\ local' = [local EXCEPT ![t] = NoCause]

\* todo!() : the task panics and runs no further.
Todo(t, o, n) ==
  /\ pc[t] = "idle"
  /\ Spawned(t)
  /\ ncalls < MaxCalls
  /\ ncalls' = ncalls + 1
  /\ op' = [op EXCEPT ![t] = o]
  /\ arg' = [arg EXCEPT ![t] = Arg(n, NoCause, NoKey)]
  /\ res' = [res EXCEPT ![t] = Res("panic", NoCause)]
  /\ pc' = [pc EXCEPT ![t] = "panicked"]
  /\ UNCHANGED <<stack, local>>

\* ------------------------------------------------------- WithCancel::new
\* lines 69-76: allocate this with canceled None, children empty,
\* parent Some(context).
NewCall(t, p) ==
  /\ p \in handles
  /\ HasContextBody(p)
  /\ \E c \in NodeIds \ alive :
       /\ \A d \in NodeIds \ alive : c <= d
       /\ Begin(t, "new", Arg(c, NoCause, NoKey), "new_lock")
       /\ stack' = [stack EXCEPT ![t] = <<Frame(c)>>]
       /\ alive' = alive \cup {c}
       /\ parent' = [parent EXCEPT ![c] = p]
       /\ children' = [children EXCEPT ![c] = <<>>]
       /\ canceled' = [canceled EXCEPT ![c] = NoCause]
  /\ UNCHANGED <<handles, lock, waiters>>

\* lines 77-80: context.context_body().lock().unwrap()
NewLock(t) ==
  /\ pc[t] = "new_lock"
  /\ lock[parent[Self(t)]] = NoTask
  /\ lock' = [lock EXCEPT ![parent[Self(t)]] = t]
  /\ pc' = [pc EXCEPT ![t] = "new_push"]
  /\ UNCHANGED <<nodeVars, waiters, op, stack, arg, local, res, ncalls>>

\* A registration that pushes the node twice.
PushTwice(v, c) == Append(Append(v, c), c)

\* line 82: Vec::push
Push(v, c) == Append(v, c)

\* lines 81-83: .children.push(this.clone()); the guard is dropped at the
\* end of the statement and (this, CancelFunc) is returned.
NewPush(t) ==
  /\ pc[t] = "new_push"
  /\ LET c == Self(t)
         p == parent[c]
     IN /\ children' = [children EXCEPT ![p] = Push(@, c)]
        /\ lock' = [lock EXCEPT ![p] = NoTask]
        /\ handles' = handles \cup {c}
        /\ Return(t, Res("node", NoCause))
  /\ UNCHANGED <<alive, parent, canceled, waiters, op, ncalls>>

\* ------------------------------------------------------ Canceler::cancel
\* CancelFunc::cancel (lines 59-63) calls cancel(true, Canceled); the trait
\* method (line 121) takes any flag and any ContextError.
CancelCall(t, n, rfp, e) ==
  /\ n \in handles
  /\ IsWithCancel(n)
  /\ Begin(t, "cancel", Arg(n, e, NoKey), "cancel_lock")
  /\ stack' = [stack EXCEPT ![t] = <<CancelFrame(n, rfp)>>]
  /\ UNCHANGED <<nodeVars, lock, waiters>>

\* line 122: let mut body = self.body.lock().unwrap();
CancelLock(t) ==
  /\ pc[t] = "cancel_lock"
  /\ lock[Self(t)] = NoTask
  /\ lock' = [lock EXCEPT ![Self(t)] = t]
  /\ pc' = [pc EXCEPT ![t] = "cancel_loop"]
  /\ UNCHANGED <<nodeVars, waiters, op, stack, arg, local, res, ncalls>>

\* lines 124-126: for child in &body.children { child.cancel(false, error) }
\* with body still locked: the next child's cancel is entered as a new
\* frame, or the loop ends.
CancelLoop(t) ==
  /\ pc[t] = "cancel_loop"
  /\ LET f == Top(t)
         k == Len(stack[t])
     IN IF f.i < Len(children[f.node])
        THEN /\ stack' = [stack EXCEPT ![t] =
                   Append([@ EXCEPT ![k].i = f.i + 1],
                          CancelFrame(children[f.node][f.i + 1], FALSE))]
             /\ pc' = [pc EXCEPT ![t] = "cancel_lock"]
        ELSE /\ pc' = [pc EXCEPT ![t] = "cancel_set"]
             /\ UNCHANGED stack
  /\ UNCHANGED <<nodeVars, lock, waiters, op, arg, local, res, ncalls>>

\* A cancel that broadcasts without writing the cause.
ReplaceKeep(old, e) == old

\* A cancel that takes the recorded cause when there is one.
ReplaceTake(old, e) == IF old # NoCause THEN NoCause ELSE e

\* line 127: body.canceled.replace(error);
Replace(old, e) == e

CancelSet(t) ==
  /\ pc[t] = "cancel_set"
  /\ canceled' = [canceled EXCEPT ![Self(t)] = Replace(@, arg[t].error)]
  /\ pc' = [pc EXCEPT ![t] = "cancel_notify"]
  /\ UNCHANGED <<alive, handles, children, parent, lock, waiters,
                 op, stack, arg, local, res, ncalls>>

\* One Notify shared by the whole tree: the waiters of every node are woken.
NotifyTree(n) == UNION {waiters[m] : m \in NodeIds}

\* notify_one() in place of notify_waiters(): a single waiter is woken.
NotifyOne(n) == IF waiters[n] = {} THEN {}
                ELSE {CHOOSE t \in waiters[n] : \A u \in waiters[n] : t <= u}

\* line 129: self.cancel_notify.notify_waiters(): every waiter queued on
\* the Notify is woken; no permit is stored for a later notified().
NotifyWaiters(n) == waiters[n]

CancelNotify(t) ==
  /\ pc[t] = "cancel_notify"
  /\ LET woken == NotifyWaiters(Self(t))
     IN /\ waiters' = [waiters EXCEPT ![Self(t)] = @ \ woken]
        /\ pc' = [u \in Tasks |->
                    IF u = t THEN "cancel_ret"
                    ELSE IF u \in woken THEN "done_woken"
                    ELSE pc[u]]
  /\ UNCHANGED <<nodeVars, lock, op, stack, arg, local, res, ncalls>>

\* The guard is leaked: the Mutex stays locked.
LeakBody(t) == lock

\* line 130: the guard body goes out of scope and the Mutex is released.
DropBody(t) == [lock EXCEPT ![Self(t)] = NoTask]

\* A cancel that acts on its flag: with remove_from_parent set, the node is
\* taken out of its parent's children as cancel returns.
CancelRetRemove(t) ==
  /\ pc[t] = "cancel_ret"
  /\ lock' = DropBody(t)
  /\ children' =
       IF Top(t).remove_from_parent
       THEN [children EXCEPT ![parent[Self(t)]] =
               SelectSeq(@, LAMBDA x : x # Self(t))]
       ELSE children
  /\ IF Len(stack[t]) > 1
     THEN /\ stack' = [stack EXCEPT ![t] = Pop(@)]
          /\ pc' = [pc EXCEPT ![t] = "cancel_loop"]
          /\ UNCHANGED <<res, arg, local>>
     ELSE Return(t, Res("unit", NoCause))
  /\ UNCHANGED <<alive, handles, parent, canceled, waiters, op, ncalls>>

\* line 130: body is dropped and cancel returns: to the caller's loop when
\* it was a child's cancel.
CancelRet(t) ==
  /\ pc[t] = "cancel_ret"
  /\ lock' = DropBody(t)
  /\ IF Len(stack[t]) > 1
     THEN /\ stack' = [stack EXCEPT ![t] = Pop(@)]
          /\ pc' = [pc EXCEPT ![t] = "cancel_loop"]
          /\ UNCHANGED <<res, arg, local>>
     ELSE Return(t, Res("unit", NoCause))
  /\ UNCHANGED <<nodeVars, waiters, op, ncalls>>

\* ------------------------------------------------------ WithCancel::done
\* The async fn body runs when the future is first polled (line 188:
\* ctx.done().await); until then nothing of it has run.
DoneCall(t, n) ==
  /\ n \in handles
  /\ IsWithCancel(n)
  /\ Begin(t, "done", Arg(n, NoCause, NoKey), "done_notified")
  /\ stack' = [stack EXCEPT ![t] = <<Frame(n)>>]
  /\ UNCHANGED <<nodeVars, lock, waiters>>

\* line 87: self.cancel_notify.notified().await : the task joins the
\* Notify's waiters and suspends; only a later notify_waiters() wakes it.
Notified(n, t) == waiters[n] \cup {t}

DoneRegister(t) ==
  /\ pc[t] = "done_notified"
  /\ waiters' = [waiters EXCEPT ![Self(t)] = Notified(Self(t), t)]
  /\ pc' = [pc EXCEPT ![t] = "done_wait"]
  /\ UNCHANGED <<nodeVars, lock, op, stack, arg, local, res, ncalls>>

\* line 88: self.body.lock().unwrap().canceled.clone(), once woken.
DoneLock(t) ==
  /\ pc[t] = "done_woken"
  /\ lock[Self(t)] = NoTask
  /\ lock' = [lock EXCEPT ![Self(t)] = t]
  /\ local' = [local EXCEPT ![t] = canceled[Self(t)]]
  /\ pc' = [pc EXCEPT ![t] = "done_ret"]
  /\ UNCHANGED <<nodeVars, waiters, op, stack, arg, res, ncalls>>

\* lines 88-92: if let Some(e) = .. { Err(e) } else { Ok(()) }
DoneResult(c) == IF c # NoCause THEN Res("Err", c) ELSE Res("Ok", NoCause)

DoneRet(t) ==
  /\ pc[t] = "done_ret"
  /\ lock' = [lock EXCEPT ![Self(t)] = NoTask]
  /\ Return(t, DoneResult(local[t]))
  /\ UNCHANGED <<nodeVars, waiters, op, ncalls>>

\* lines 158-160: Background::done is todo!()
DoneRoot(t) ==
  /\ Root \in handles
  /\ Todo(t, "done", Root)
  /\ UNCHANGED <<nodeVars, lock, waiters>>

\* ----------------------------------------------------------- Context::err
ErrCall(t, n) ==
  /\ n \in handles
  /\ IsWithCancel(n)
  /\ Begin(t, "err", Arg(n, NoCause, NoKey), "err_lock")
  /\ stack' = [stack EXCEPT ![t] = <<Frame(n)>>]
  /\ UNCHANGED <<nodeVars, lock, waiters>>

\* line 106: self.body.lock().unwrap().canceled.clone()
ErrResult(c) == IF c # NoCause THEN Res("Some", c) ELSE Res("None", NoCause)

ErrLock(t) ==
  /\ pc[t] = "err_lock"
  /\ lock[Self(t)] = NoTask
  /\ lock' = [lock EXCEPT ![Self(t)] = t]
  /\ local' = [local EXCEPT ![t] = canceled[Self(t)]]
  /\ pc' = [pc EXCEPT ![t] = "err_ret"]
  /\ UNCHANGED <<nodeVars, waiters, op, stack, arg, res, ncalls>>

ErrRet(t) ==
  /\ pc[t] = "err_ret"
  /\ lock' = [lock EXCEPT ![Self(t)] = NoTask]
  /\ Return(t, ErrResult(local[t]))
  /\ UNCHANGED <<nodeVars, waiters, op, ncalls>>

\* lines 162-164: Background::err is todo!()
BackgroundErr(t) == Todo(t, "err", Root)

ErrRoot(t) ==
  /\ Root \in handles
  /\ BackgroundErr(t)
  /\ UNCHANGED <<nodeVars, lock, waiters>>

\* --------------------------------------------------------- Context::value
\* A root that answers every key.
BackgroundValueOk(key) == Res("Ok", NoCause)

\* lines 166-168: Background::value returns Err(NotFound); it reads no
\* shared state and takes no lock.
BackgroundValue(key) == Res("NotFound", NoCause)

ValueRoot(t, key) ==
  /\ Root \in handles
  /\ pc[t] = "idle"
  /\ Spawned(t)
  /\ ncalls < MaxCalls
  /\ ncalls' = ncalls + 1
  /\ op' = [op EXCEPT ![t] = "value"]
  /\ arg' = [arg EXCEPT ![t] = Arg(Root, NoCause, NoKey)]
  /\ res' = [res EXCEPT ![t] = BackgroundValue(key)]
  /\ UNCHANGED <<nodeVars, lock, waiters, pc, stack, local>>

ValueCall(t, n, key) ==
  /\ n \in handles
  /\ IsWithCancel(n)
  /\ Begin(t, "value", Arg(n, NoCause, key), "value_lock")
  /\ stack' = [stack EXCEPT ![t] = <<Frame(n)>>]
  /\ UNCHANGED <<nodeVars, lock, waiters>>

\* lines 110-112: self.body.lock().unwrap()
ValueLock(t) ==
  /\ pc[t] = "value_lock"
  /\ lock[Self(t)] = NoTask
  /\ lock' = [lock EXCEPT ![Self(t)] = t]
  /\ pc' = [pc EXCEPT ![t] = "value_parent"]
  /\ UNCHANGED <<nodeVars, waiters, op, stack, arg, local, res, ncalls>>

\* lines 113-116: .parent.as_ref().expect(..).value(key) with the guard on
\* self.body still alive: a Background parent answers at once, a WithCancel
\* parent runs its own value as a new frame.
ValueParent(t) ==
  /\ pc[t] = "value_parent"
  /\ LET p == parent[Self(t)]
     IN IF p = NoNode
        THEN /\ pc' = [pc EXCEPT ![t] = "panicked"]
             /\ res' = [res EXCEPT ![t] = Res("panic", NoCause)]
             /\ UNCHANGED stack
        ELSE IF p = Root
        THEN /\ pc' = [pc EXCEPT ![t] = "value_ret"]
             /\ res' = [res EXCEPT ![t] = BackgroundValue(arg[t].key)]
             /\ UNCHANGED stack
        ELSE /\ stack' = [stack EXCEPT ![t] = Append(@, Frame(p))]
             /\ pc' = [pc EXCEPT ![t] = "value_lock"]
             /\ UNCHANGED res
  /\ UNCHANGED <<nodeVars, lock, waiters, op, arg, local, ncalls>>

\* line 117: the guard on self.body is dropped and the parent's answer is
\* returned unchanged.
ValueRet(t) ==
  /\ pc[t] = "value_ret"
  /\ lock' = [lock EXCEPT ![Self(t)] = NoTask]
  /\ IF Len(stack[t]) > 1
     THEN /\ stack' = [stack EXCEPT ![t] = Pop(@)]
          /\ UNCHANGED <<pc, res, arg, local>>
     ELSE Return(t, res[t])
  /\ UNCHANGED <<nodeVars, waiters, op, ncalls>>

\* ------------------------------------------------------------------- Next
Call(t) ==
  \/ \E p \in NodeIds : NewCall(t, p)
  \/ \E n \in NodeIds, rfp \in BOOLEAN, e \in ContextError :
       CancelCall(t, n, rfp, e)
  \/ \E n \in NodeIds : DoneCall(t, n)
  \/ DoneRoot(t)
  \/ \E n \in NodeIds : ErrCall(t, n)
  \/ ErrRoot(t)
  \/ \E n \in NodeIds, key \in ContextKey : ValueCall(t, n, key)
  \/ \E key \in ContextKey : ValueRoot(t, key)

Step(t) ==
  \/ NewLock(t) \/ NewPush(t)
  \/ CancelLock(t) \/ CancelLoop(t) \/ CancelSet(t)
  \/ CancelNotify(t) \/ CancelRet(t)
  \/ DoneRegister(t) \/ DoneLock(t) \/ DoneRet(t)
  \/ ErrLock(t) \/ ErrRet(t)
  \/ ValueLock(t) \/ ValueParent(t) \/ ValueRet(t)

Next == \E t \in Tasks : Call(t) \/ Step(t)

Spec == Init /\ [][Next]_vars

\* Every thread that can take its next step eventually takes it; nobody is
\* obliged to start a new operation.
FairSpec == Spec /\ \A t \in Tasks : WF_vars(Step(t))

TypeOK ==
  /\ alive \subseteq NodeIds /\ handles \subseteq alive
  /\ \A n \in NodeIds : canceled[n] \in ContextError \cup {NoCause}
  /\ \A n \in NodeIds : lock[n] \in Tasks \cup {NoTask}
  /\ ncalls \in 0..MaxCalls

\* ----------------------------------------------------------------- claims
ErrCanceled == Res("Err", "Canceled")

\* Task t is inside done() on node n and has not returned yet.
InDone(t, n) ==
  /\ op[t] = "done"
  /\ arg[t].node = n
  /\ pc[t] \in {"done_notified", "done_wait", "done_woken", "done_ret"}

\* Task c is inside a cancel frame on node n that has not broadcast yet.
Cancelling(c, n) ==
  /\ pc[c] \in {"cancel_lock", "cancel_loop", "cancel_set", "cancel_notify"}
  /\ Self(c) = n

\* done() on node n has returned Err(Canceled) to task t.
DoneErr(t, n) ==
  /\ op[t] = "done" /\ arg[t].node = n
  /\ pc[t] = "idle" /\ res[t] = ErrCanceled

\* cancel on node n has returned to task c.
CancelReturned(c, n) ==
  /\ op[c] = "cancel" /\ arg[c].node = n
  /\ pc[c] = "idle" /\ res[c].tag = "unit"

\* C1: when one task cancels a node and another awaits done() on it, the
\* awaiting task eventually resolves to Err(Canceled), whether cancel runs
\* before, while or after the waiter registers on the Notify.
C1_DoneResolvesAfterCancel ==
  \A t \in Tasks, n \in NodeIds :
    (InDone(t, n) /\ (canceled[n] # NoCause \/ \E c \in Tasks : Cancelling(c, n)))
      ~> DoneErr(t, n)

\* C2: every task suspended in done() on a node when a cancel of that node
\* is under way is resolved to Err(Canceled) by that one cancel; none stays
\* suspended.
C2_MultiWaiterWake ==
  \A t \in Tasks, n \in NodeIds :
    (t \in waiters[n] /\ \E c \in Tasks : Cancelling(c, n)) ~> DoneErr(t, n)

C2_Witness ==
  \E t1, t2 \in Tasks, n \in NodeIds :
    /\ t1 # t2
    /\ DoneErr(t1, n) /\ DoneErr(t2, n)
    /\ ncalls = 3
    /\ \E c \in Tasks : CancelReturned(c, n)

\* C3: once a node's recorded cause is set, no step of any operation changes
\* it or resets it to None.
C3_Monotonic ==
  [][\A n \in NodeIds : canceled[n] # NoCause => canceled'[n] = canceled[n]]_vars

\* A second cancel has written the cause of a node a first cancel had
\* already returned from.
C3_Witness ==
  \E c1, c2 \in Tasks, n \in NodeIds :
    /\ c1 # c2
    /\ CancelReturned(c1, n)
    /\ pc[c2] = "cancel_notify" /\ Self(c2) = n
    /\ canceled[n] = "Canceled"

\* The node the outermost cancel frame of task c was called on.
CancelTarget(c) == stack[c][1].node

\* Task c is at the write of the cause or at the broadcast of a cancel
\* frame on node m, inside a cancel called on m or on an ancestor of m.
CancelActsOn(c, m) ==
  /\ pc[c] \in {"cancel_set", "cancel_notify"}
  /\ Self(c) = m
  /\ CancelTarget(c) \in {m} \cup Ancestors(m)

\* C5: canceling a node never sets the cause of its parent or of a sibling
\* and never wakes their waiters: a node's cause changes, and a task
\* suspended in its done() is woken, only by a cancel called on that node
\* or on one of its ancestors.
C5_UpwardIsolation ==
  [][\A m \in NodeIds :
       /\ canceled'[m] # canceled[m] => \E c \in Tasks : CancelActsOn(c, m)
       /\ \A t \in Tasks :
            (t \in waiters[m] /\ pc'[t] # pc[t])
              => \E c \in Tasks : CancelActsOn(c, m)]_vars

\* A is canceled and its cancel has returned; its sibling B is not
\* canceled and a task is still suspended in B.done().
C5_Witness ==
  \E a, b \in NodeIds \ {Root}, c, t \in Tasks :
    /\ a # b /\ parent[a] = Root /\ parent[b] = Root
    /\ CancelReturned(c, a) /\ canceled[a] = "Canceled"
    /\ canceled[b] = NoCause /\ canceled[Root] = NoCause
    /\ t \in waiters[b] /\ pc[t] = "done_wait"

\* C7: two cancels of one node, one after the other or concurrently, never
\* panic, each returns, and once both have returned the node's lock is free
\* and err() on it is Some(Canceled).
C7_CancelTwice ==
  /\ [](\A c \in Tasks : op[c] = "cancel" => pc[c] # "panicked")
  /\ [](\A c1, c2 \in Tasks, n \in NodeIds :
          (c1 # c2 /\ CancelReturned(c1, n) /\ CancelReturned(c2, n))
            => /\ ErrResult(canceled[n]) = Res("Some", "Canceled")
               /\ lock[n] \notin {c1, c2})
  /\ \A c \in Tasks :
       (op[c] = "cancel" /\ pc[c] # "idle") ~> (op[c] = "cancel" /\ pc[c] = "idle")

\* Both cancels of the same node have returned and a third task has read
\* Some(Canceled) from err() on it.
C7_Witness ==
  \E c1, c2, t \in Tasks, n \in NodeIds :
    /\ c1 # c2
    /\ CancelReturned(c1, n) /\ CancelReturned(c2, n)
    /\ op[t] = "err" /\ arg[t].node = n /\ pc[t] = "idle"
    /\ res[t] = Res("Some", "Canceled")

\* Task t is inside value() or has just been answered.
ValuePcs == {"value_lock", "value_parent", "value_ret"}

\* The step is one of a value() call: a step inside it, its start on a
\* WithCancel, or the whole call on the root (the only call that leaves
\* every pc as it was).
ValueMoved ==
  \/ \E t \in Tasks : pc[t] \in ValuePcs /\ pc'[t] # pc[t]
  \/ \E t \in Tasks : pc[t] = "idle" /\ pc'[t] = "value_lock"
  \/ ncalls' # ncalls /\ pc' = pc

\* C8: value(key) on any node, canceled or not, delegates to the parent at
\* most tree-depth times, ends, returns NotFound and changes no node's
\* children, parent, cause or waiters.
C8_ValueNotFound ==
  /\ [](\A t \in Tasks : op[t] = "value" =>
          /\ pc[t] \in ValuePcs \cup {"idle"}
          /\ pc[t] \in ValuePcs => Len(stack[t]) <= Depth(arg[t].node)
          /\ pc[t] = "idle" => res[t] = Res("NotFound", NoCause))
  /\ [][ValueMoved => UNCHANGED <<alive, children, parent, canceled, waiters>>]_vars
  /\ \A t \in Tasks :
       (op[t] = "value" /\ pc[t] # "idle") ~> (op[t] = "value" /\ pc[t] = "idle")

\* value() has returned NotFound on a WithCancel node that is canceled.
C8_Witness ==
  \E t \in Tasks :
    /\ op[t] = "value" /\ pc[t] = "idle"
    /\ res[t] = Res("NotFound", NoCause)
    /\ arg[t].node # Root
    /\ canceled[arg[t].node] = "Canceled"

\* C9: the root is never canceled, and err() on the root does not panic and
\* returns None in every state.
C9_RootErrNone ==
  /\ canceled[Root] = NoCause
  /\ \A t \in Tasks :
       (op[t] = "err" /\ arg[t].node = Root)
         => pc[t] = "idle" /\ res[t] = Res("None", NoCause)

\* C10: no task ever holds the locks of two nodes, and whenever a task
\* acquires a lock (in a cancel cascade, in value, anywhere) it holds none.
C10_SingleLock ==
  /\ [](\A t \in Tasks : Cardinality(LocksHeld(t)) <= 1)
  /\ [][\A t \in Tasks, m \in NodeIds :
          (lock[m] # t /\ lock'[m] = t) => LocksHeld(t) = {}]_vars

\* A value() call holds its node's lock while the parent answers, and at
\* the same time a cancel holds another node's lock in its loop.
C10_Witness ==
  \E t, c \in Tasks :
    /\ pc[t] = "value_ret" /\ LocksHeld(t) = {Self(t)}
    /\ pc[c] = "cancel_loop" /\ LocksHeld(c) = {Self(c)}

\* Task t is at a lock().unwrap() on node n's Mutex and has not got it yet.
Wants(t, n) ==
  \/ pc[t] = "new_lock" /\ n = parent[Self(t)]
  \/ pc[t] \in {"cancel_lock", "done_woken", "err_lock", "value_lock"}
       /\ n = Self(t)

\* Task t waits for a lock that task u holds.
WaitsOn(t, u) == \E n \in NodeIds : Wants(t, n) /\ lock[n] = u

\* A set of tasks each waiting for a lock held by a task of the set.
LockCycle ==
  \E S \in SUBSET Tasks :
    /\ S # {}
    /\ \A t \in S : \E u \in S : WaitsOn(t, u)

\* C11: no set of tasks ever waits on each other's node locks in a cycle,
\* and every task that is at a lock acquisition eventually holds that lock.
C11_NoDeadlock ==
  /\ [](~LockCycle)
  /\ \A t \in Tasks, n \in NodeIds : Wants(t, n) ~> lock[n] = t

\* A cancel waits for the lock of a node that a value() call holds while
\* its parent answers.
C11_Witness ==
  \E t, u \in Tasks :
    /\ pc[t] = "cancel_lock" /\ WaitsOn(t, u)
    /\ pc[u] = "value_ret"

\* How many entries of the children list v are the node c.
Count(v, c) == Cardinality({k \in 1..Len(v) : v[k] = c})

\* The step is one of WithCancel::new run by task t.
NewMoved(t) ==
  \/ pc[t] = "idle" /\ pc'[t] = "new_lock"
  \/ pc[t] \in {"new_lock", "new_push"} /\ pc'[t] # pc[t]

\* C12: WithCancel::new(P) creates the node with cause None, no children
\* and parent P, appends it to P's children once, holding P's lock, before
\* it returns; a node's parent never changes afterwards; the construction
\* changes no cause and no other node's children.
C12_Construction ==
  /\ [](\A c \in alive \ {Root}, m \in NodeIds :
          Count(children[m], c) =
            IF m = parent[c] /\ c \in handles THEN 1 ELSE 0)
  /\ [](\A t \in Tasks : pc[t] \in {"new_lock", "new_push"} =>
          /\ Self(t) \notin handles
          /\ canceled[Self(t)] = NoCause
          /\ children[Self(t)] = <<>>
          /\ parent[Self(t)] \in handles)
  /\ [][\A m \in NodeIds :
          children'[m] # children[m] =>
            \E t \in Tasks :
              /\ pc[t] = "new_push" /\ lock[m] = t /\ m = parent[Self(t)]
              /\ children'[m] = Append(children[m], Self(t))
              /\ pc'[t] = "idle" /\ lock'[m] = NoTask]_vars
  /\ [][\A n \in alive : parent'[n] = parent[n]]_vars
  /\ [][\A t \in Tasks : NewMoved(t) =>
          /\ \A n \in alive : canceled'[n] = canceled[n]
          /\ \A n \in alive : n # parent[arg'[t].node] =>
               children'[n] = children[n]]_vars

\* A second WithCancel has been constructed and returned: the root's list
\* holds both nodes in the order of their registration.
C12_Witness ==
  \E t \in Tasks :
    /\ op[t] = "new" /\ pc[t] = "idle" /\ res[t].tag = "node"
    /\ arg[t].node # First
    /\ children[Root] = <<First, arg[t].node>>
    /\ parent[arg[t].node] = Root
    /\ children[arg[t].node] = <<>> /\ canceled[arg[t].node] = NoCause

IsPrefix(v, w) == Len(v) <= Len(w) /\ SubSeq(w, 1, Len(v)) = v

CancelPcs ==
  {"cancel_lock", "cancel_loop", "cancel_set", "cancel_notify", "cancel_ret"}

\* What a step of task t's cancel frame makes of the nodes, computed from
\* the frame's node and the error alone, the flag not read.
CancelNodesAfter(t) ==
  [cause |-> IF pc[t] = "cancel_set"
             THEN [canceled EXCEPT ![Self(t)] = arg[t].error]
             ELSE canceled,
   kids |-> children,
   up |-> parent]

\* C13: children lists only grow at their end, no step of a cancel removes
\* or reorders an entry, and a cancel leaves every node as its error and
\* receiver alone determine, whether remove_from_parent is true or false.
C13_FlagNoOp ==
  /\ [][\A n \in NodeIds : IsPrefix(children[n], children'[n])]_vars
  /\ [][\A t \in Tasks :
          (pc[t] \in CancelPcs /\ pc'[t] # pc[t]) =>
            /\ canceled' = CancelNodesAfter(t).cause
            /\ children' = CancelNodesAfter(t).kids
            /\ parent' = CancelNodesAfter(t).up]_vars
  /\ [](\A c \in Tasks, n \in NodeIds :
          CancelReturned(c, n) =>
            /\ Count(children[parent[n]], n) = 1
            /\ canceled[n] \in ContextError)

\* One cancel called with remove_from_parent = true and one called with
\* false are both about to return from the same node, which is canceled
\* and still registered in the root's children.
C13_Witness ==
  \E t, u \in Tasks :
    /\ pc[t] = "cancel_ret" /\ Top(t).remove_from_parent
    /\ pc[u] = "cancel_lock" /\ ~Top(u).remove_from_parent
    /\ Self(t) = Self(u)
    /\ canceled[Self(t)] = "Canceled"
    /\ Count(children[Root], Self(t)) = 1
    /\ \E w \in Tasks : CancelReturned(w, Self(t))

\* done() on node n has returned to task t.
DoneReturned(t, n) ==
  /\ op[t] = "done" /\ arg[t].node = n
  /\ pc[t] = "idle" /\ res[t].tag # "none"

\* C14: done() on a node gets past notified() only when the node's cause is
\* set and never returns Ok(()): the broadcast is made by a cancel that holds
\* the node's lock and has written the cause, a waiter leaves the Notify only
\* by that broadcast, and what done() returns is Err of the recorded cause.
C14_DoneOnlyErr ==
  /\ [](\A t \in Tasks :
          (op[t] = "done" /\ pc[t] \in {"done_woken", "done_ret"}) =>
            canceled[Self(t)] # NoCause)
  /\ [](\A t \in Tasks, n \in NodeIds :
          DoneReturned(t, n) =>
            /\ res[t].tag # "Ok"
            /\ canceled[n] # NoCause
            /\ res[t] = Res("Err", canceled[n]))
  /\ [](\A c \in Tasks :
          pc[c] = "cancel_notify" =>
            lock[Self(c)] = c /\ canceled[Self(c)] # NoCause)
  /\ [][\A t \in Tasks :
          (pc[t] = "done_wait" /\ pc'[t] # "done_wait") =>
            /\ pc'[t] = "done_woken"
            /\ \E c \in Tasks :
                 /\ pc[c] = "cancel_notify" /\ pc'[c] # pc[c]
                 /\ Self(c) = Self(t)
                 /\ lock[Self(c)] = c
                 /\ canceled[Self(c)] # NoCause]_vars

\* A done() that suspended on the Notify before any cancel has been woken
\* by a cancel's broadcast and has returned Err(Canceled).
C14_Witness ==
  \E t, c \in Tasks, n \in NodeIds :
    /\ DoneReturned(t, n) /\ res[t] = Res("Err", "Canceled")
    /\ CancelReturned(c, n)
    /\ canceled[n] = "Canceled"

\* C15: every cancelable node's parent is the root, every cancelable node's
\* children list is empty, and a cancel's loop over children visits no
\* child: it never calls cancel on another node and goes straight on to
\* write the cause.
C15_FlatTree ==
  /\ [](\A n \in alive \ {Root} :
          /\ parent[n] = Root
          /\ children[n] = <<>>
          /\ Descendants(n) = {})
  /\ [](\A t \in Tasks :
          pc[t] \in CancelPcs =>
            /\ Len(stack[t]) = 1
            /\ Top(t).i = 0
            /\ Self(t) = arg[t].node)
  /\ [][\A t \in Tasks :
          (pc[t] = "cancel_loop" /\ pc'[t] # pc[t]) =>
            pc'[t] = "cancel_set" /\ stack' = stack]_vars

\* Two cancelable nodes are registered under the root and a cancel on one of
\* them has run its loop over children and is about to write the cause.
C15_Witness ==
  \E t \in Tasks, m \in alive :
    /\ pc[t] = "cancel_set" /\ Top(t).i = 0
    /\ m # Root /\ m # Self(t)
    /\ parent[m] = Root /\ parent[Self(t)] = Root
    /\ children[Root] = <<Self(t), m>> \/ children[Root] = <<m, Self(t)>>

====
